---- MODULE Spec2Model ----
(***************************************************************************)
(* Item resource service of the inventory tracker: the express router of   *)
(* the items table (list, create, update, delete), its zod validation      *)
(* schema, and the single relational table the router queries (Spec);      *)
(* and the page of the client (App) with the requests it awaits (SpecApp). *)
(*                                                                         *)
(* JSON objects are functions from the keys they carry to values; a key    *)
(* that is not supplied is not in the DOMAIN.  JSON null is Null, the      *)
(* JavaScript value undefined is Undefined.                                *)
(***************************************************************************)
EXTENDS Integers, Sequences, FiniteSets, TLC

\* ---------------------------------------------------------------- bounds
\* number of rows the table's id sequence hands out before creates stop
MaxId == 2
\* number of update requests that may be between their SELECT and UPDATE
MaxInFlight == 2
\* number of requests the clients send
MaxReqs == 3
\* number of requests of the page that may be awaiting their response
MaxPending == 3
\* number of things the user does on the page (keystrokes, clicks)
MaxActs == 4

\* ---------------------------------------------------------------- values
Null == "<null>"
Undefined == [undefined |-> TRUE]

StatusEnum == {"active", "retired", "repair"}
StatusDefault == "active"

ItemKeys == {"name", "category", "status", "notes"}

\* keys outside the schema that a client may send along
ExtraKeys == [id |-> 9, created_at |-> 99]

\* bodies of POST /items that name an item "a" of category "c", with and
\* without status and notes
GoodPostBodies ==
    {[name |-> "a", category |-> "c"] @@ st @@ nt :
        st \in {<<>>, [status |-> "retired"]},
        nt \in {<<>>, [notes |-> Null], [notes |-> "n"]}}

\* bodies of POST /items with a missing, empty or ill-typed name or category
\* or a status outside the enumeration
BadPostBodies ==
    { <<>>,
      [category |-> "c"],
      [name |-> "", category |-> "c"],
      [name |-> Null, category |-> "c", status |-> "retired"],
      [name |-> "a"],
      [name |-> "a", category |-> "", notes |-> "n"],
      [name |-> "a", category |-> "c", status |-> "broken"],
      [name |-> "a", category |-> "c", status |-> Null, notes |-> "n"] }

PostBodies == GoodPostBodies \cup BadPostBodies

\* bodies of PUT /items/:id: at most one schema key, and bodies that carry
\* the keys id and created_at
PutBodies ==
    { <<>>,
      [name |-> "b"], [name |-> ""],
      [category |-> "d"], [category |-> ""],
      [status |-> "retired"], [status |-> "broken"],
      [notes |-> Null], [notes |-> "n"],
      ExtraKeys, [name |-> "b"] @@ ExtraKeys }

Ids == 1..MaxId
Slots == 1..MaxInFlight

\* ---------------------------------------------------------------- zod
IsString(v) == v # Null

\* z.string(), the minimum length dropped
StringMin0(v) == IsString(v)

\* z.string().min(1)
StringMin1(v) == IsString(v) /\ Len(v) >= 1

\* z.string() in place of the enumeration
StatusAny(v) == IsString(v)

\* z.enum(["active", "retired", "repair"])
StatusOk(v) == v \in StatusEnum

\* z.string().optional().nullable()
NotesOk(v) == v = Null \/ IsString(v)

FieldOk(k, v) ==
    CASE k = "name" -> StringMin1(v)
      [] k = "category" -> StringMin1(v)
      [] k = "status" -> StatusOk(v)
      [] k = "notes" -> NotesOk(v)

\* ItemSchema.safeParse(body): name and category are required, status
\* defaults to "active" when the key is not supplied, keys outside the
\* schema are stripped.
ItemSchema(body) ==
    LET supplied == DOMAIN body \cap ItemKeys
        success == /\ {"name", "category"} \subseteq supplied
                   /\ \A k \in supplied : FieldOk(k, body[k])
        outKeys == supplied \cup {"status"}
    IN  [success |-> success,
         data |-> [k \in outKeys |->
                     IF k \in supplied THEN body[k] ELSE StatusDefault]]

\* a partial schema that still applies the default of status
ItemSchemaPartialDefaulting(body) ==
    LET supplied == DOMAIN body \cap ItemKeys
        outKeys == supplied \cup {"status"}
    IN  [success |-> \A k \in supplied : FieldOk(k, body[k]),
         data |-> [k \in outKeys |->
                     IF k \in supplied THEN body[k] ELSE StatusDefault]]

\* ItemSchema.partial().safeParse(body): every key is optional, a key that
\* is not supplied is not in the output (the default is not applied under
\* the optional wrapper), keys outside the schema are stripped.
ItemSchemaPartial(body) ==
    LET supplied == DOMAIN body \cap ItemKeys
    IN  [success |-> \A k \in supplied : FieldOk(k, body[k]),
         data |-> [k \in supplied |-> body[k]]]

\* ---------------------------------------------------------------- table
\* SELECT * FROM items ORDER BY created_at, the DESC dropped
RECURSIVE SqlSelectAllAsc(_)
SqlSelectAllAsc(rows) ==
    IF rows = {} THEN <<>>
    ELSE LET oldest == CHOOSE r \in rows :
                           \A q \in rows : r.created_at <= q.created_at
         IN  <<oldest>> \o SqlSelectAllAsc(rows \ {oldest})

\* SELECT * FROM items ORDER BY created_at DESC
RECURSIVE SqlSelectAll(_)
SqlSelectAll(rows) ==
    IF rows = {} THEN <<>>
    ELSE LET newest == CHOOSE r \in rows :
                           \A q \in rows : q.created_at <= r.created_at
         IN  <<newest>> \o SqlSelectAll(rows \ {newest})

\* SELECT * FROM items, the WHERE clause dropped
SqlSelectAny(rows, id) == rows

\* SELECT * FROM items WHERE id = $1
SqlSelectById(rows, id) == {r \in rows : r.id = id}

\* the id the table's sequence assigns to the next inserted row
NewId(seq) == seq

\* the created_at default of an inserted row
Now(clk) == clk

\* INSERT INTO items (name, category, status, notes) VALUES (...) RETURNING *
SqlInsert(seq, clk, name, category, status, notes) ==
    [id |-> NewId(seq), name |-> name, category |-> category,
     status |-> status, notes |-> notes, created_at |-> Now(clk)]

\* an upsert: a row is written under the id also when no row matches
SqlUpsert(rows, name, category, status, notes, id) ==
    IF \E r \in rows : r.id = id
      THEN {IF r.id = id
              THEN [r EXCEPT !.name = name, !.category = category,
                             !.status = status, !.notes = notes]
              ELSE r : r \in rows}
      ELSE rows \cup {[id |-> id, name |-> name, category |-> category,
                       status |-> status, notes |-> notes, created_at |-> 0]}

\* an UPDATE whose SET list also stamps created_at
SqlUpdateStamping(rows, name, category, status, notes, id) ==
    {IF r.id = id
       THEN [r EXCEPT !.name = name, !.category = category,
                      !.status = status, !.notes = notes,
                      !.created_at = r.created_at + 1]
       ELSE r : r \in rows}

\* UPDATE items SET name=$1, category=$2, status=$3, notes=$4 WHERE id=$5
SqlUpdate(rows, name, category, status, notes, id) ==
    {IF r.id = id
       THEN [r EXCEPT !.name = name, !.category = category,
                      !.status = status, !.notes = notes]
       ELSE r : r \in rows}

\* DELETE FROM items WHERE id<=$1
SqlDeleteUpTo(rows, id) == {r \in rows : r.id > id}

\* DELETE FROM items WHERE id=$1
SqlDelete(rows, id) == {r \in rows : r.id # id}

\* a merge that takes notes from the request only, as the create handler does
MergedNotesFromBody(current, data) ==
    [k \in DOMAIN current \cup DOMAIN data |->
        IF k \in DOMAIN data THEN data[k]
        ELSE IF k = "notes" THEN Null ELSE current[k]]

\* { ...current.rows[0], ...parsed.data }
Merged(current, data) ==
    [k \in DOMAIN current \cup DOMAIN data |->
        IF k \in DOMAIN data THEN data[k] ELSE current[k]]

\* notes ?? ""
NotesOrEmpty(data) == IF "notes" \in DOMAIN data THEN data.notes ELSE ""

\* notes ?? null
NotesOrNull(data) == IF "notes" \in DOMAIN data THEN data.notes ELSE Null

\* ---------------------------------------------------------------- state
VARIABLES
    store,      \* rows of the items table
    nextId,     \* next value of the table's id sequence
    clock,      \* the store's clock, read by the created_at default
    inflight,   \* update requests between their SELECT and their UPDATE
    last,       \* the response sent most recently
    nCreated,   \* number of 201 responses so far
    nDeleted,   \* number of 200 responses to DELETE so far
    nReqs       \* number of requests received so far

vars == <<store, nextId, clock, inflight, last, nCreated, nDeleted, nReqs>>

\* state of the page (App): the useState cells, the requests it awaits
VARIABLES
    items,            \* the displayed list
    status,           \* "idle", "loading" or "saving"
    error,            \* the error message shown, "" for none
    name,             \* create form
    category,
    search,           \* search box
    debouncedSearch,
    editingId,        \* id of the item being edited, NoEdit for null
    editName,
    pending,          \* requests sent and not yet answered, with the
                      \* locals their continuations close over
    okDeleted,        \* ids whose DELETE succeeded since the last list fetch
    acts              \* number of things the user has done

cvars == <<items, status, error, name, category, search, debouncedSearch,
           editingId, editName, pending, okDeleted, acts>>

allvars == <<vars, cvars>>

PSlots == 1..MaxPending
NoReq == [kind |-> "none"]
NoEdit == 0

\* the page before it is mounted: the initial values of the useState cells
AppUseState ==
    /\ items = <<>>
    /\ status = "idle"
    /\ error = ""
    /\ name = ""
    /\ category = ""
    /\ search = ""
    /\ debouncedSearch = ""
    /\ editingId = NoEdit
    /\ editName = ""
    /\ pending = [p \in PSlots |-> NoReq]
    /\ okDeleted = {}
    /\ acts = 0

Idle == [pc |-> "idle"]

NoId == 0

\* the request a response answers, and the response
Response(op, id, body, code, item, rows) ==
    [op |-> op, id |-> id, body |-> body,
     code |-> code, item |-> item, rows |-> rows]

Init ==
    /\ store = {}
    /\ nextId = 1
    /\ clock = 1
    /\ inflight = [s \in Slots |-> Idle]
    /\ last = Response("none", NoId, <<>>, 0, Undefined, <<>>)
    /\ nCreated = 0
    /\ nDeleted = 0
    /\ nReqs = 0
    /\ AppUseState

\* a request arrives
Receive ==
    /\ nReqs < MaxReqs
    /\ nReqs' = nReqs + 1

\* the lowest free activation of the update handler
FreeSlot(s) ==
    /\ inflight[s] = Idle
    /\ \A t \in Slots : t < s => inflight[t] # Idle

\* rows[0] of a query result
Rows0(rows) == IF rows = {} THEN Undefined ELSE CHOOSE r \in rows : TRUE

\* router.get("/")
RouterGet ==
    /\ Receive
    /\ UNCHANGED cvars
    /\ last' = Response("get", NoId, <<>>, 200, Undefined, SqlSelectAll(store))
    /\ UNCHANGED <<store, nextId, clock, inflight, nCreated, nDeleted>>

\* router.post("/")
RouterPost(body) ==
    LET parsed == ItemSchema(body)
    IN  /\ Receive
        /\ UNCHANGED cvars
        /\ IF ~parsed.success
             THEN /\ last' = Response("post", NoId, body, 400, Undefined, <<>>)
                  /\ UNCHANGED <<store, nextId, clock, inflight, nCreated, nDeleted>>
             ELSE LET row == SqlInsert(nextId, clock, parsed.data.name,
                                       parsed.data.category, parsed.data.status,
                                       NotesOrNull(parsed.data))
                  IN  /\ nextId <= MaxId
                      /\ store' = store \cup {row}
                      /\ nextId' = nextId + 1
                      /\ clock' = clock + 1
                      /\ nCreated' = nCreated + 1
                      /\ last' = Response("post", NoId, body, 201, row, <<>>)
                      /\ UNCHANGED <<inflight, nDeleted>>

\* an update handler that looks the item up before it validates the body
RouterPutSelectLookupFirst(s, id, body) ==
    LET parsed == ItemSchemaPartial(body)
        current == SqlSelectById(store, id)
    IN  /\ Receive
        /\ UNCHANGED cvars
        /\ FreeSlot(s)
        /\ IF Cardinality(current) = 0
             THEN /\ last' = Response("put", id, body, 404, Undefined, <<>>)
                  /\ UNCHANGED inflight
             ELSE IF ~parsed.success
                    THEN /\ last' = Response("put", id, body, 400, Undefined, <<>>)
                         /\ UNCHANGED inflight
                    ELSE /\ inflight' = [inflight EXCEPT ![s] =
                                [pc |-> "update", id |-> id, body |-> body,
                                 data |-> parsed.data,
                                 current |-> Rows0(current)]]
                         /\ UNCHANGED last
        /\ UNCHANGED <<store, nextId, clock, nCreated, nDeleted>>

\* router.put("/:id"), from the request to the result of the SELECT
RouterPutSelect(s, id, body) ==
    LET parsed == ItemSchemaPartial(body)
        current == SqlSelectById(store, id)
    IN  /\ Receive
        /\ UNCHANGED cvars
        /\ FreeSlot(s)
        /\ IF ~parsed.success
             THEN /\ last' = Response("put", id, body, 400, Undefined, <<>>)
                  /\ UNCHANGED inflight
             ELSE IF Cardinality(current) = 0
                    THEN /\ last' = Response("put", id, body, 404, Undefined, <<>>)
                         /\ UNCHANGED inflight
                    ELSE /\ inflight' = [inflight EXCEPT ![s] =
                                [pc |-> "update", id |-> id, body |-> body,
                                 data |-> parsed.data,
                                 current |-> Rows0(current)]]
                         /\ UNCHANGED last
        /\ UNCHANGED <<store, nextId, clock, nCreated, nDeleted>>

\* router.put("/:id"), the UPDATE and the response
RouterPutUpdate(s) ==
    /\ inflight[s].pc = "update"
    /\ LET id == inflight[s].id
           merged == Merged(inflight[s].current, inflight[s].data)
           after == SqlUpdate(store, merged.name, merged.category,
                              merged.status, merged.notes, id)
           result == SqlSelectById(after, id)
       IN  /\ store' = after
           /\ last' = Response("put", id, inflight[s].body, 200,
                               Rows0(result), <<>>)
    /\ inflight' = [inflight EXCEPT ![s] = Idle]
    /\ UNCHANGED <<nextId, clock, nCreated, nDeleted, nReqs>>
    /\ UNCHANGED cvars

\* router.delete("/:id")
RouterDelete(id) ==
    LET result == SqlSelectById(store, id)
    IN  /\ Receive
        /\ UNCHANGED cvars
        /\ store' = SqlDelete(store, id)
        /\ IF Cardinality(result) = 0
             THEN /\ last' = Response("delete", id, <<>>, 404, Undefined, <<>>)
                  /\ UNCHANGED nDeleted
             ELSE /\ last' = Response("delete", id, <<>>, 200, Rows0(result), <<>>)
                  /\ nDeleted' = nDeleted + 1
        /\ UNCHANGED <<nextId, clock, inflight, nCreated>>

Next ==
    \/ RouterGet
    \/ \E body \in PostBodies : RouterPost(body)
    \/ \E s \in Slots, id \in Ids, body \in PutBodies : RouterPutSelect(s, id, body)
    \/ \E s \in Slots : RouterPutUpdate(s)
    \/ \E id \in Ids : RouterDelete(id)

Spec == Init /\ [][Next]_allvars

\* ---------------------------------------------------------------- page
\* String.prototype.trim on the texts the user types
Trim(v) ==
    CASE v = " " -> ""
      [] v = " a" -> "a"
      [] OTHER -> v

\* what the user types into the create form, the search box, the edit box
NameTexts == {" a", "ab"}
CategoryTexts == {"cd"}
SearchTexts == {" ", "x"}
EditTexts == {" a", "xy"}

IsLoading == status = "loading"
IsSaving == status = "saving"

\* the user does something
Act ==
    /\ acts < MaxActs
    /\ acts' = acts + 1

\* the lowest free place for a request that awaits its response
FreeP(p) ==
    /\ pending[p] = NoReq
    /\ \A q \in PSlots : q < p => pending[q] # NoReq

\* ids an item of the page may have
AppIds == 1..(MaxId + MaxActs)

\* the item shown under an id
Shown(id) == {k \in DOMAIN items : items[k].id = id}
ItemOf(id) == items[CHOOSE k \in Shown(id) : TRUE]

\* the row of the item being edited is rendered
EditRowShown == \E i \in 1..Len(items) : items[i].id = editingId

\* prev.filter((i) => i.id !== id)
FilterOut(prev, id) == SelectSeq(prev, LAMBDA i : i.id # id)

\* prev.map((i) => i.id === id ? { ...i, name } : i)
MapName(prev, id, nm) ==
    [k \in 1..Len(prev) |->
        IF prev[k].id = id THEN [prev[k] EXCEPT !.name = nm] ELSE prev[k]]

\* a failed delete that leaves the list as it is
RollbackNone(snapshot, current) == current

\* setItems(snapshot) in the catch of deleteItem
Rollback(snapshot, current) == snapshot

\* rows the table holds when the page is opened
SeedRows ==
    {[id |-> i, name |-> "ab", category |-> "cd", status |-> StatusDefault,
      notes |-> Null, created_at |-> i] : i \in Ids}

\* the page right after mount: both effects have called fetchItems("")
AppInit ==
    /\ store = SeedRows
    /\ nextId = MaxId + 1
    /\ clock = MaxId + 1
    /\ inflight = [s \in Slots |-> Idle]
    /\ last = Response("none", NoId, <<>>, 0, Undefined, <<>>)
    /\ nCreated = MaxId
    /\ nDeleted = 0
    /\ nReqs = 0
    /\ items = <<>>
    /\ status = "loading"
    /\ error = ""
    /\ name = ""
    /\ category = ""
    /\ search = ""
    /\ debouncedSearch = ""
    /\ editingId = NoEdit
    /\ editName = ""
    /\ pending = [p \in PSlots |->
                    IF p <= 2 THEN [kind |-> "get", query |-> ""] ELSE NoReq]
    /\ okDeleted = {}
    /\ acts = 0

ServerUntouched == UNCHANGED vars

\* onChange of the name input
SetName(v) ==
    /\ ~IsSaving
    /\ Act
    /\ name' = v
    /\ UNCHANGED <<items, status, error, category, search, debouncedSearch,
                   editingId, editName, pending, okDeleted>>
    /\ ServerUntouched

\* onChange of the category input
SetCategory(v) ==
    /\ ~IsSaving
    /\ Act
    /\ category' = v
    /\ UNCHANGED <<items, status, error, name, search, debouncedSearch,
                   editingId, editName, pending, okDeleted>>
    /\ ServerUntouched

\* onChange of the search input
SetSearch(v) ==
    /\ ~(IsSaving \/ IsLoading)
    /\ Act
    /\ search' = v
    /\ UNCHANGED <<items, status, error, name, category, debouncedSearch,
                   editingId, editName, pending, okDeleted>>
    /\ ServerUntouched

\* the debounce timer fires, debouncedSearch changes and its effect calls
\* fetchItems(debouncedSearch)
DebounceFire(p) ==
    /\ Trim(search) # debouncedSearch
    /\ FreeP(p)
    /\ debouncedSearch' = Trim(search)
    /\ error' = ""
    /\ status' = "loading"
    /\ pending' = [pending EXCEPT ![p] =
                      [kind |-> "get", query |-> Trim(search)]]
    /\ UNCHANGED <<items, name, category, search, editingId, editName,
                   okDeleted, acts>>
    /\ ServerUntouched

\* the Refresh button: fetchItems(debouncedSearch)
Refresh(p) ==
    /\ ~(IsLoading \/ IsSaving)
    /\ Act
    /\ FreeP(p)
    /\ error' = ""
    /\ status' = "loading"
    /\ pending' = [pending EXCEPT ![p] =
                      [kind |-> "get", query |-> debouncedSearch]]
    /\ UNCHANGED <<items, name, category, search, debouncedSearch,
                   editingId, editName, okDeleted>>
    /\ ServerUntouched

\* addItem, up to the await of the POST
AddItem(p) ==
    /\ ~IsSaving
    /\ Act
    /\ FreeP(p)
    /\ IF Len(Trim(name)) < 2 \/ Len(Trim(category)) < 2
         THEN /\ error' = "Name and category must be at least 2 characters."
              /\ UNCHANGED <<status, pending>>
         ELSE /\ error' = ""
              /\ status' = "saving"
              /\ pending' = [pending EXCEPT ![p] =
                    [kind |-> "post",
                     body |-> [name |-> Trim(name), category |-> Trim(category)],
                     query |-> debouncedSearch]]
    /\ UNCHANGED <<items, name, category, search, debouncedSearch,
                   editingId, editName, okDeleted>>
    /\ ServerUntouched

\* startEdit(item)
StartEdit(id) ==
    /\ Shown(id) # {}
    /\ id # editingId
    /\ ~IsSaving
    /\ Act
    /\ editingId' = ItemOf(id).id
    /\ editName' = ItemOf(id).name
    /\ UNCHANGED <<items, status, error, name, category, search,
                   debouncedSearch, pending, okDeleted>>
    /\ ServerUntouched

\* onChange of the edit input
SetEditName(v) ==
    /\ EditRowShown
    /\ ~IsSaving
    /\ Act
    /\ editName' = v
    /\ UNCHANGED <<items, status, error, name, category, search,
                   debouncedSearch, editingId, pending, okDeleted>>
    /\ ServerUntouched

\* cancelEdit
CancelEdit ==
    /\ EditRowShown
    /\ ~IsSaving
    /\ Act
    /\ editingId' = NoEdit
    /\ editName' = ""
    /\ UNCHANGED <<items, status, error, name, category, search,
                   debouncedSearch, pending, okDeleted>>
    /\ ServerUntouched

\* saveEdit(id), up to the await of the PUT
SaveEdit(p) ==
    /\ EditRowShown
    /\ ~IsSaving
    /\ Act
    /\ FreeP(p)
    /\ IF Len(Trim(editName)) < 2
         THEN /\ error' = "Item name must be at least 2 characters."
              /\ UNCHANGED <<status, pending>>
         ELSE /\ error' = ""
              /\ status' = "saving"
              /\ pending' = [pending EXCEPT ![p] =
                    [kind |-> "put", id |-> editingId,
                     name |-> Trim(editName)]]
    /\ UNCHANGED <<items, name, category, search, debouncedSearch,
                   editingId, editName, okDeleted>>
    /\ ServerUntouched

\* deleteItem(id), up to the await of the DELETE
DeleteItem(p, id, confirmed) ==
    /\ Shown(id) # {}
    /\ id # editingId
    /\ ~IsSaving
    /\ Act
    /\ FreeP(p)
    /\ IF ~confirmed
         THEN UNCHANGED <<items, error, pending>>
         ELSE /\ error' = ""
              /\ items' = FilterOut(items, id)
              /\ pending' = [pending EXCEPT ![p] =
                    [kind |-> "delete", id |-> id, snapshot |-> items]]
    /\ UNCHANGED <<status, name, category, search, debouncedSearch,
                   editingId, editName, okDeleted>>
    /\ ServerUntouched

\* fetchItems after the await: the GET is answered or fails
GetDone(p, ok) ==
    /\ pending[p].kind = "get"
    /\ IF ok
         THEN /\ items' = SqlSelectAll(store)
              /\ okDeleted' = {}
              /\ UNCHANGED error
         ELSE /\ error' = "Unable to connect to server. Is the backend running?"
              /\ UNCHANGED <<items, okDeleted>>
    /\ status' = "idle"
    /\ pending' = [pending EXCEPT ![p] = NoReq]
    /\ UNCHANGED <<name, category, search, debouncedSearch, editingId,
                   editName, acts>>
    /\ ServerUntouched

\* addItem after the await: the POST is answered with 201 and addItem calls
\* fetchItems(debouncedSearch), or the POST fails
PostDone(p, ok) ==
    /\ pending[p].kind = "post"
    /\ IF ok
         THEN LET parsed == ItemSchema(pending[p].body)
                  row == SqlInsert(nextId, clock, parsed.data.name,
                                   parsed.data.category, parsed.data.status,
                                   NotesOrNull(parsed.data))
              IN  /\ parsed.success
                  /\ store' = store \cup {row}
                  /\ nextId' = nextId + 1
                  /\ clock' = clock + 1
                  /\ nCreated' = nCreated + 1
                  /\ name' = ""
                  /\ category' = ""
                  /\ error' = ""
                  /\ status' = "loading"
                  /\ pending' = [pending EXCEPT ![p] =
                        [kind |-> "get", query |-> pending[p].query]]
         ELSE /\ error' = "Failed to add item."
              /\ status' = "idle"
              /\ pending' = [pending EXCEPT ![p] = NoReq]
              /\ UNCHANGED <<store, nextId, clock, nCreated, name, category>>
    /\ UNCHANGED <<inflight, last, nDeleted, nReqs>>
    /\ UNCHANGED <<items, search, debouncedSearch, editingId, editName,
                   okDeleted, acts>>

\* saveEdit after the await: the PUT is answered with 200, or fails
PutDone(p, ok) ==
    /\ pending[p].kind = "put"
    /\ IF ok
         THEN LET id == pending[p].id
                  parsed == ItemSchemaPartial([name |-> pending[p].name])
                  current == SqlSelectById(store, id)
                  merged == Merged(Rows0(current), parsed.data)
              IN  /\ parsed.success
                  /\ Cardinality(current) # 0
                  /\ store' = SqlUpdate(store, merged.name, merged.category,
                                        merged.status, merged.notes, id)
                  /\ items' = MapName(items, id, pending[p].name)
                  /\ editingId' = NoEdit
                  /\ editName' = ""
                  /\ UNCHANGED error
         ELSE /\ error' = "Failed to update item."
              /\ UNCHANGED <<store, items, editingId, editName>>
    /\ status' = "idle"
    /\ pending' = [pending EXCEPT ![p] = NoReq]
    /\ UNCHANGED <<nextId, clock, inflight, last, nCreated, nDeleted, nReqs>>
    /\ UNCHANGED <<name, category, search, debouncedSearch, okDeleted, acts>>

\* deleteItem after the await: the DELETE is answered with 200, or fails
DeleteDone(p, ok) ==
    /\ pending[p].kind = "delete"
    /\ IF ok
         THEN /\ Cardinality(SqlSelectById(store, pending[p].id)) # 0
              /\ store' = SqlDelete(store, pending[p].id)
              /\ nDeleted' = nDeleted + 1
              /\ okDeleted' = okDeleted \cup {pending[p].id}
              /\ UNCHANGED <<items, error>>
         ELSE /\ items' = Rollback(pending[p].snapshot, items)
              /\ error' = "Delete failed."
              /\ UNCHANGED <<store, nDeleted, okDeleted>>
    /\ pending' = [pending EXCEPT ![p] = NoReq]
    /\ UNCHANGED <<nextId, clock, inflight, last, nCreated, nReqs>>
    /\ UNCHANGED <<status, name, category, search, debouncedSearch,
                   editingId, editName, acts>>

AppNext ==
    \/ \E v \in NameTexts : SetName(v)
    \/ \E v \in CategoryTexts : SetCategory(v)
    \/ \E v \in SearchTexts : SetSearch(v)
    \/ \E p \in PSlots : DebounceFire(p)
    \/ \E p \in PSlots : Refresh(p)
    \/ \E p \in PSlots : AddItem(p)
    \/ \E id \in AppIds : StartEdit(id)
    \/ \E v \in EditTexts : SetEditName(v)
    \/ CancelEdit
    \/ \E p \in PSlots : SaveEdit(p)
    \/ \E p \in PSlots, id \in AppIds, c \in BOOLEAN : DeleteItem(p, id, c)
    \/ \E p \in PSlots, ok \in BOOLEAN : GetDone(p, ok)
    \/ \E p \in PSlots, ok \in BOOLEAN : PostDone(p, ok)
    \/ \E p \in PSlots, ok \in BOOLEAN : PutDone(p, ok)
    \/ \E p \in PSlots, ok \in BOOLEAN : DeleteDone(p, ok)

SpecApp == AppInit /\ [][AppNext]_allvars

\* ---------------------------------------------------------------- claims
HasId(rows, id) == \E r \in rows : r.id = id

\* C1: an update that supplies only name and runs with no other request
\* between its SELECT and its UPDATE answers 200, sets the stored name to
\* the supplied value and leaves category, status and notes of the item,
\* and every other item, as they were.
C1_NameOnlyUpdate ==
    [][\A s \in Slots :
          (/\ RouterPutUpdate(s)
           /\ DOMAIN inflight[s].body = {"name"}
           /\ inflight[s].current \in store)
          => LET old == inflight[s].current
                 new == last'.item
             IN  /\ last'.code = 200
                 /\ new \in store'
                 /\ new.id = old.id
                 /\ new.name = inflight[s].body.name
                 /\ new.category = old.category
                 /\ new.status = old.status
                 /\ new.notes = old.notes
                 /\ store' \ {new} = store \ {old}]_vars

C1_Witness ==
    /\ last.op = "put"
    /\ last.code = 200
    /\ DOMAIN last.body = {"name"}
    /\ last.item # Undefined
    /\ last.item.name = "b"
    /\ last.item.status = "retired"
    /\ last.item.notes = "n"

\* C2: an update with a valid body whose id is not in the store answers
\* 404 and leaves the store, and so the item count, unchanged.
C2_UpdateNotFound ==
    [][\A s \in Slots, id \in Ids, body \in PutBodies :
          (/\ RouterPutSelect(s, id, body)
           /\ ~HasId(store, id)
           /\ \A k \in DOMAIN body \cap ItemKeys :
                 \/ k \in {"name", "category"} /\ body[k] \notin {"", Null}
                 \/ k = "status" /\ body[k] \in StatusEnum
                 \/ k = "notes")
          => /\ last'.op = "put"
             /\ last'.id = id
             /\ last'.code = 404
             /\ store' = store
             /\ Cardinality(store') = Cardinality(store)
             /\ inflight' = inflight]_vars

C2_Witness ==
    /\ last.op = "put"
    /\ last.code = 404
    /\ last.body = [name |-> "b"]
    /\ store # {}
    /\ ~HasId(store, last.id)

\* C3: a delete of an id in the store removes that row and no other and
\* answers 200 with the row as it was stored; a delete of an id not in the
\* store answers 404 and changes nothing; an id that has left the store
\* never comes back, so every later delete of it answers 404.
C3_Delete ==
    [][/\ \A id \in Ids :
            RouterDelete(id) =>
              IF HasId(store, id)
                THEN \E r \in store :
                        /\ r.id = id
                        /\ store' = store \ {r}
                        /\ Cardinality(store') = Cardinality(store) - 1
                        /\ last'.code = 200
                        /\ last'.item = r
                ELSE /\ last'.code = 404
                     /\ store' = store
       /\ \A id \in Ids :
            (id < nextId /\ ~HasId(store, id)) => ~HasId(store', id)]_vars

C3_Witness ==
    /\ last.op = "delete"
    /\ last.code = 404
    /\ last.id < nextId
    /\ nDeleted = 1

\* C4: a create whose name or category is empty or missing, or whose status
\* is outside the enumeration, answers 400 and adds no row.
C4_CreateRejected ==
    [][\A body \in PostBodies :
          (/\ RouterPost(body)
           /\ \/ "name" \notin DOMAIN body
              \/ "category" \notin DOMAIN body
              \/ body.name = ""
              \/ body.category = ""
              \/ "status" \in DOMAIN body /\ body.status \notin StatusEnum)
          => /\ last'.op = "post"
             /\ last'.code = 400
             /\ store' = store
             /\ nextId' = nextId]_vars

C4_Witness ==
    /\ last.op = "post"
    /\ last.code = 400
    /\ last.body = [name |-> "", category |-> "c"]
    /\ store # {}

\* C5: a valid create adds exactly one row and answers 201 with it; the
\* row's id is not the id of any item already stored, its name and category
\* are the supplied ones, its status is the supplied one or "active", its
\* notes the supplied string or null.
C5_Create ==
    [][\A body \in PostBodies :
          (/\ RouterPost(body)
           /\ {"name", "category"} \subseteq DOMAIN body
           /\ body.name \notin {"", Null}
           /\ body.category \notin {"", Null}
           /\ "status" \in DOMAIN body => body.status \in StatusEnum)
          => LET row == last'.item
             IN  /\ last'.code = 201
                 /\ row \notin store
                 /\ store' = store \cup {row}
                 /\ Cardinality(store') = Cardinality(store) + 1
                 /\ ~HasId(store, row.id)
                 /\ row.name = body.name
                 /\ row.category = body.category
                 /\ row.status = IF "status" \in DOMAIN body
                                   THEN body.status ELSE "active"
                 /\ row.notes = IF "notes" \in DOMAIN body
                                  THEN body.notes ELSE Null]_vars

C5_Witness ==
    /\ last.op = "post"
    /\ last.code = 201
    /\ DOMAIN last.body = {"name", "category"}
    /\ last.item.status = "active"
    /\ last.item.notes = Null
    /\ Cardinality(store) = 2

\* C6: the store holds as many items as there were successful creates less
\* successful deletes; a list answers with exactly the stored items, newest
\* first (no item comes after one created before it), and changes nothing.
C6_List ==
    /\ [](Cardinality(store) = nCreated - nDeleted)
    /\ [][RouterGet =>
            LET rows == last'.rows
            IN  /\ last'.code = 200
                /\ Len(rows) = nCreated - nDeleted
                /\ {rows[i] : i \in 1..Len(rows)} = store
                /\ \A i, j \in 1..Len(rows) :
                      i < j => /\ rows[i].created_at >= rows[j].created_at
                               /\ rows[i].id > rows[j].id
                /\ store' = store]_vars

C6_Witness ==
    /\ last.op = "get"
    /\ nCreated = 2
    /\ Len(last.rows) = 2
    /\ last.rows[1].id = 2
    /\ last.rows[1].created_at > last.rows[2].created_at

\* C7: every stored item has an id no other stored item has, a non-empty
\* name, a non-empty category and a status of the enumeration.
C7_StoredItemsValid ==
    \A r \in store :
        /\ \A q \in store : q.id = r.id => q = r
        /\ r.name \notin {"", Null}
        /\ r.category \notin {"", Null}
        /\ r.status \in {"active", "retired", "repair"}

C7_Witness ==
    /\ Cardinality(store) = 1
    /\ \E r \in store : r.name = "b"
    /\ last.op = "put"
    /\ last.code = 400
    /\ last.body = [status |-> "broken"]

\* C8, as claimed: an update that omits notes and an update that supplies
\* notes as null both leave the stored notes of an item whose notes was a
\* string null.
C8_OmittedNotesBecomeNull ==
    [][\A s \in Slots :
          (/\ RouterPutUpdate(s)
           /\ inflight[s].current \in store
           /\ inflight[s].current.notes # Null
           /\ \/ "notes" \notin DOMAIN inflight[s].body
              \/ inflight[s].body.notes = Null)
          => /\ last'.item \in store'
             /\ last'.item.notes = Null]_vars

\* C8, amended: with no other request between the SELECT and the UPDATE, an
\* update that supplies notes as null leaves the stored notes null, and an
\* update that omits notes leaves the stored notes as they were.
C8_NotesNullOrKept ==
    [][\A s \in Slots :
          (/\ RouterPutUpdate(s)
           /\ inflight[s].current \in store
           /\ inflight[s].current.notes # Null)
          => /\ last'.item \in store'
             /\ last'.item.id = inflight[s].id
             /\ ("notes" \notin DOMAIN inflight[s].body)
                   => last'.item.notes = inflight[s].current.notes
             /\ ("notes" \in DOMAIN inflight[s].body)
                   => last'.item.notes = inflight[s].body.notes]_vars

C8_Witness ==
    /\ last.op = "put"
    /\ last.code = 200
    /\ last.body = [category |-> "d"]
    /\ last.item # Undefined
    /\ last.item.notes = "n"

\* C9: no step changes the id or the created_at of a stored item: every
\* row stored after a step under an id the sequence has already handed out
\* was stored before the step under that id with the same created_at, and
\* the UPDATE of an update request, whatever keys its body carries, leaves
\* the ids and created_at values of the store as they were.
C9_IdAndCreatedAtFixed ==
    [][/\ \A q \in store' :
            q.id < nextId =>
               \E r \in store : r.id = q.id /\ r.created_at = q.created_at
       /\ \A s \in Slots :
            RouterPutUpdate(s) =>
               {<<r.id, r.created_at>> : r \in store'}
                   = {<<r.id, r.created_at>> : r \in store}]_vars

C9_Witness ==
    /\ last.op = "put"
    /\ last.code = 200
    /\ last.body = [name |-> "b"] @@ ExtraKeys
    /\ last.item # Undefined
    /\ last.item.id = last.id
    /\ last.item.name = "b"
    /\ last.item.id # ExtraKeys.id
    /\ last.item.created_at # ExtraKeys.created_at

\* C10, as claimed: every operation is one statement, so while an update
\* is between its SELECT and its UPDATE the only step that can follow is
\* that update's own UPDATE.
C10_SingleStatement ==
    [][\A s \in Slots : inflight[s].pc = "update" => RouterPutUpdate(s)]_vars

\* C11, as claimed: when a delete of the item is sequenced between the
\* SELECT and the UPDATE of an update, the UPDATE is the last write and the
\* item is present afterwards with the update's merged values.
C11_UpdateLastWins ==
    [][\A s \in Slots :
          (RouterPutUpdate(s) /\ ~HasId(store, inflight[s].id))
          => \E r \in store' :
                /\ r.id = inflight[s].id
                /\ \A k \in DOMAIN inflight[s].data :
                      r[k] = inflight[s].data[k]]_vars

\* C11, amended: a delete leaves the item absent whether or not an update
\* of it is between its SELECT and its UPDATE, and an UPDATE sequenced
\* after the delete matches no row and leaves the store as it is: the item
\* is absent in either order.
C11_DeleteWins ==
    [][/\ \A id \in Ids : RouterDelete(id) => ~HasId(store', id)
       /\ \A s \in Slots :
            (RouterPutUpdate(s) /\ ~HasId(store, inflight[s].id))
            => /\ store' = store
               /\ ~HasId(store', inflight[s].id)
       /\ \A s \in Slots :
            (RouterPutUpdate(s) /\ HasId(store, inflight[s].id))
            => \E r \in store' :
                  /\ r.id = inflight[s].id
                  /\ \A k \in ItemKeys :
                        r[k] = Merged(inflight[s].current, inflight[s].data)[k]]_vars

C11_Witness ==
    /\ last.op = "put"
    /\ last.code = 200
    /\ last.body = [name |-> "b"]
    /\ nDeleted = 1
    /\ last.id < nextId
    /\ ~HasId(store, last.id)

\* C12, as claimed: the UPDATE step of an update answers 200 with the item
\* as stored right after the write; a 200 never carries no item.
C12_UpdateReturnsItem ==
    [][\A s \in Slots :
          RouterPutUpdate(s)
          => /\ last'.code = 200
             /\ last'.item # Undefined
             /\ last'.item \in store'
             /\ last'.item.id = inflight[s].id]_vars

\* C13, as claimed: the UPDATE of an update leaves every field its body did
\* not supply, in the item it writes, as it was stored right before.
C13_UnsuppliedFieldsKept ==
    [][\A s \in Slots :
          RouterPutUpdate(s)
          => \A r \in store, q \in store' :
                (r.id = inflight[s].id /\ q.id = r.id)
                => \A k \in ItemKeys \ DOMAIN inflight[s].body :
                      q[k] = r[k]]_vars

\* C14: an update whose body has an empty name or category or a status
\* outside the enumeration answers 400 and changes nothing, whether or not
\* the id is in the store.
C14_UpdateRejected ==
    [][\A s \in Slots, id \in Ids, body \in PutBodies :
          (/\ RouterPutSelect(s, id, body)
           /\ \/ "name" \in DOMAIN body /\ body.name = ""
              \/ "category" \in DOMAIN body /\ body.category = ""
              \/ "status" \in DOMAIN body /\ body.status \notin StatusEnum)
          => /\ last'.op = "put"
             /\ last'.id = id
             /\ last'.code = 400
             /\ store' = store
             /\ inflight' = inflight]_vars

C14_Witness ==
    /\ last.op = "put"
    /\ last.code = 400
    /\ last.body = [category |-> ""]
    /\ store # {}
    /\ ~HasId(store, last.id)

\* C15: a confirmed delete removes the item from the displayed list at
\* once; when the DELETE fails the list is set back to the list of the
\* moment of the click, which holds the item, and the error is
\* "Delete failed."; when it succeeds the list is left as it is.  If
\* nothing changed the list in between, the list after a failed delete is
\* the list before the delete and the item is still gone after a
\* successful one.
C15_OptimisticDelete ==
    [][/\ \A p \in PSlots, id \in AppIds :
            DeleteItem(p, id, TRUE)
            => /\ \A k \in DOMAIN items' : items'[k].id # id
               /\ items' = SelectSeq(items, LAMBDA r : r.id # id)
               /\ Len(items') = Len(items) - 1
       /\ \A p \in PSlots :
            DeleteDone(p, FALSE)
            => LET before == pending[p].snapshot
                   id == pending[p].id
               IN  /\ \E k \in DOMAIN items' : items'[k].id = id
                   /\ error' = "Delete failed."
                   /\ (items = SelectSeq(before, LAMBDA r : r.id # id))
                         => items' = before
       /\ \A p \in PSlots :
            DeleteDone(p, TRUE)
            => /\ items' = items
               /\ (items = SelectSeq(pending[p].snapshot,
                                     LAMBDA r : r.id # pending[p].id))
                     => \A k \in DOMAIN items' : items'[k].id # pending[p].id
      ]_allvars

C15_Witness ==
    /\ error = "Delete failed."
    /\ \A p \in PSlots : pending[p].kind # "delete"
    /\ Len(items) >= 2
    /\ Len(items) = Cardinality(store)
    /\ nDeleted = 0

\* C16, as claimed: the rollback of a failed delete never brings back an
\* item removed by another delete whose DELETE succeeded: every item the
\* list shows after the rollback whose DELETE succeeded since the last list
\* fetch was already shown before it.
C16_RollbackKeepsDeleted ==
    [][\A p \in PSlots :
          DeleteDone(p, FALSE)
          => \A k \in DOMAIN items' :
                items'[k].id \in okDeleted
                => \E j \in DOMAIN items : items[j].id = items'[k].id]_allvars

\* C17, as claimed: at most one POST or PUT of the page awaits its response,
\* and status is "saving" whenever one does.
C17_OneSaveInFlight ==
    LET saves == {p \in PSlots : pending[p].kind \in {"post", "put"}}
    IN  /\ Cardinality(saves) <= 1
        /\ saves # {} => status = "saving"

====
